---------------------------- MODULE Spec2Model ----------------------------
(***************************************************************************)
(* Pagination engine, reactive scheduler and break projection plugin of    *)
(* the paginated Tiptap editor (src/app/hooks/usePagination.ts and         *)
(* src/app/components/TiptapEditor.tsx).                                   *)
(*                                                                         *)
(* Several specifications share the module:                                *)
(*   SpecEngine      computePageBreaks applied to bounded layouts,         *)
(*   SpecScenarioA   computePageBreaks on three stacked paragraphs,        *)
(*   SpecLoop        the loops of computePageBreaks, statement by          *)
(*                   statement,                                            *)
(*   SpecSplit       findSplitPointWithinBlock and the break pushed,       *)
(*   SpecSearch      the binary search of the split offset,                *)
(*   SpecRefine      the whitespace refinement of the split offset,        *)
(*   SpecSched       the debounce / animation-frame scheduler of           *)
(*                   usePagination,                                        *)
(*   SpecLive        the scheduler of one session never torn down, with    *)
(*                   fair timers and frames,                               *)
(*   SpecPlugin      the Pagination plugin's state.apply over              *)
(*                   transactions,                                         *)
(*   SpecRebuild     the rebuild of the spacer set from one break set,     *)
(*   SpecProjection  the projection of anchors onto document positions,    *)
(*   SpecSync        the projection effect interleaved with edits.         *)
(* Each specification keeps the variables of the others constant.          *)
(***************************************************************************)
EXTENDS Integers, Sequences, FiniteSets, TLC

VARIABLES
    \* ---- engine (computePageBreaks) ----
    blocks,      \* the elements matched by blockSelector, in document order
    opts,        \* PaginateOptions
    caretApi,    \* behaviour of the browser's caret-from-point probe
    out,         \* << >> before the call, then <<the PaginationResult>>
    \* ---- scheduler (usePagination) ----
    now,         \* the clock, in ticks
    session,     \* number of runs of the effect so far (0: not mounted yet)
    roots,       \* roots[s]: whether the root captured by session s is non-null
    unmounted,   \* the component is gone: the effect never runs again
    editor,      \* which of on / off the editor object offers
    sched,       \* the hook's refs and result, the browser's timer and frame
                 \* queues, the editor's listeners, and what has happened so far
    \* ---- Pagination plugin ----
    docSize,     \* doc.content.size of the editor state
    decorations, \* the plugin state's DecorationSet: the spacer widgets
    lastTr,      \* the transaction applied last
    repeats,     \* 1 when lastTr repeats the transaction applied before it
    dropped,     \* how many spacers the mapping of lastTr deleted
    \* ---- one call of a function studied on its own ----
    args,        \* the arguments of the call
    ret,         \* << >> before the call returns, then << its return value >>
    loop         \* the locals of computePageBreaks while its loops run step by
                 \* step (<< >> otherwise): the statement reached, the index i,
                 \* the breaks pushed and currentPageBottom

engineVars == <<blocks, opts, caretApi, out>>
schedVars == <<now, session, roots, unmounted, editor, sched>>
pluginVars == <<docSize, decorations, lastTr, repeats, dropped>>

callVars == <<args, ret, loop>>

vars == <<engineVars, schedVars, pluginVars, callVars>>

\* "No text position": the null of findSplitPointWithinBlock and of the caret probe.
NoSplit == [run |-> 0, offset |-> 0]

\* A transaction without steps and without pagination meta.
NoTr == [steps |-> << >>, meta |-> << >>]

\* No function is studied on its own.
CallIdle ==
    /\ args = << >>
    /\ ret = << >>
    /\ loop = << >>

\* The plugin while the engine or the scheduler is studied: DecorationSet.empty.
PluginIdle ==
    /\ docSize = 0
    /\ decorations = << >>
    /\ lastTr = NoTr
    /\ repeats = 0
    /\ dropped = 0

(***************************************************************************)
(* Bounds of the layouts the engine is applied to.  One pixel is the line  *)
(* height of the modelled text; coordinates are root-local Y values.       *)
(***************************************************************************)
MaxY == 5
MaxUnits == 2
MaxPageHeight == 2
MaxMargin == 1
CharsPerLine == 2

\* Number.NEGATIVE_INFINITY: below every coordinate of the model.
NEGATIVE_INFINITY == -1

maxBinarySearchSteps == 18
maxBacktrack == 40

Max2(a, b) == IF a >= b THEN a ELSE b
Min2(a, b) == IF a <= b THEN a ELSE b

(***************************************************************************)
(* Text of a block.  A text run (Text node) is a sequence of characters,   *)
(* "a" for a word character and " " for whitespace; a block's text is the  *)
(* sequence of its runs as walkTextNodes yields them.  The text is laid    *)
(* out CharsPerLine characters to a line, each line one pixel high,        *)
(* starting at the block's top.                                            *)
(***************************************************************************)
IsSpace(c) == c = " "

Fill(n) == [k \in 1..n |-> IF k % 3 = 0 THEN " " ELSE "a"]

TextStyles == {"none", "one", "two"}

TextOf(style, h) ==
    CASE style = "one" /\ h >= 1 -> << Fill(h * CharsPerLine) >>
      [] style = "two" /\ h >= 2 -> << Fill(CharsPerLine), Fill((h - 1) * CharsPerLine) >>
      [] OTHER -> << >>

\* walkTextNodes: whitespace-only and empty text nodes are rejected.
walkTextNodes(text) ==
    SelectSeq(text, LAMBDA run : \E k \in 1..Len(run) : ~IsSpace(run[k]))

RECURSIVE CharsBefore(_, _)
CharsBefore(runs, r) ==
    IF r <= 1 THEN 0 ELSE Len(runs[r - 1]) + CharsBefore(runs, r - 1)

CeilDiv(a, b) == (a + b - 1) \div b

\* measureBlockToTextOffsetBottomY: bottom of the last client rect of the range
\* from the start of the block to (textNode, offset); no rect for an empty range.
measureBlockToTextOffsetBottomY(block, r, offset) ==
    LET runs == walkTextNodes(block.text)
        off  == Max2(0, Min2(offset, Len(runs[r])))
        c    == CharsBefore(runs, r) + off
    IN  IF c = 0 THEN NEGATIVE_INFINITY
        ELSE block.top + CeilDiv(c, CharsPerLine)

RECURSIVE BinarySearchFirstFit(_, _, _, _, _, _, _, _)
BinarySearchFirstFit(block, r, boundaryY, maxSteps, lo, hi, best, steps) ==
    IF lo <= hi /\ steps < maxSteps
    THEN LET mid    == (lo + hi) \div 2
             bottom == measureBlockToTextOffsetBottomY(block, r, mid)
         IN  IF bottom <= boundaryY
             THEN mid
             ELSE BinarySearchFirstFit(block, r, boundaryY, maxSteps, lo, mid - 1, best,
                                       steps + 1)
    ELSE best

RECURSIVE BinarySearch(_, _, _, _, _, _, _, _)
\* The while loop of binarySearchSplitOffset; its value is best after the loop.
BinarySearch(block, r, boundaryY, maxSteps, lo, hi, best, steps) ==
    IF lo <= hi /\ steps < maxSteps
    THEN LET mid    == (lo + hi) \div 2
             bottom == measureBlockToTextOffsetBottomY(block, r, mid)
         IN  IF bottom <= boundaryY
             THEN BinarySearch(block, r, boundaryY, maxSteps, mid + 1, hi, mid, steps + 1)
             ELSE BinarySearch(block, r, boundaryY, maxSteps, lo, mid - 1, best, steps + 1)
    ELSE best

RECURSIVE Backtrack(_, _, _)
Backtrack(data, refined, back) ==
    IF refined > 0 /\ back < maxBacktrack
    THEN IF IsSpace(data[refined]) THEN refined
         ELSE Backtrack(data, refined - 1, back + 1)
    ELSE refined

RefineOffsetRaw(data, best) == best

\* The whitespace refinement of binarySearchSplitOffset.
RefineOffset(data, best) ==
    LET refined == Backtrack(data, best, 0)
    IN  IF refined <= 0 THEN best ELSE refined

binarySearchSplitOffset(block, r, boundaryY, maxSteps) ==
    LET runs == walkTextNodes(block.text)
        firstCharBottom == measureBlockToTextOffsetBottomY(block, r, 1)
    IN  IF firstCharBottom > boundaryY THEN 0
        ELSE RefineOffset(runs[r],
                 BinarySearch(block, r, boundaryY, maxSteps, 0, Len(runs[r]), 0, 0))


(***************************************************************************)
(* The caret probe of the fast path (caretPositionFromPoint followed by    *)
(* normalizeCaretToTextPosition), as the layout above answers it at        *)
(* y = boundaryY - 1 near the right edge of the block:                     *)
(*   "none"     the API is missing, returns null, or hits another node;    *)
(*   "lineEnd"  the text position ending the line that contains y;         *)
(*   "below"    the position ending the line after it (a hit test that     *)
(*              rounds down the page), which need not fit.                 *)
(***************************************************************************)
CaretApis == {"none", "lineEnd", "below"}

RECURSIVE RunOfChar(_, _, _)
RunOfChar(runs, c, r) ==
    IF r >= Len(runs) \/ CharsBefore(runs, r) + Len(runs[r]) >= c THEN r
    ELSE RunOfChar(runs, c, r + 1)

TotalChars(runs) == CharsBefore(runs, Len(runs) + 1)

CaretProbe(block, boundaryY, api) ==
    LET runs  == walkTextNodes(block.text)
        line  == boundaryY - block.top + (IF api = "below" THEN 1 ELSE 0)
        c     == Min2(line * CharsPerLine, TotalChars(runs))
        r     == RunOfChar(runs, c, 1)
    IN  IF api = "none" \/ Len(runs) = 0 \/ line < 1 THEN NoSplit
        ELSE [run |-> r, offset |-> c - CharsBefore(runs, r)]

RECURSIVE ScanTextNodesKeepZero(_, _, _, _, _)
ScanTextNodesKeepZero(block, boundaryY, maxSteps, r, previousTextNode) ==
    LET runs == walkTextNodes(block.text) IN
    IF r > Len(runs) THEN NoSplit
    ELSE IF measureBlockToTextOffsetBottomY(block, r, Len(runs[r])) <= boundaryY
         THEN ScanTextNodesKeepZero(block, boundaryY, maxSteps, r + 1, r)
         ELSE [run |-> r,
               offset |-> binarySearchSplitOffset(block, r, boundaryY, maxSteps)]

RECURSIVE ScanTextNodes(_, _, _, _, _)
\* The fallback scan of findSplitPointWithinBlock (the for loop over walkTextNodes).
ScanTextNodes(block, boundaryY, maxSteps, r, previousTextNode) ==
    LET runs == walkTextNodes(block.text) IN
    IF r > Len(runs) THEN NoSplit
    ELSE IF measureBlockToTextOffsetBottomY(block, r, Len(runs[r])) <= boundaryY
         THEN ScanTextNodes(block, boundaryY, maxSteps, r + 1, r)
         ELSE LET offset == binarySearchSplitOffset(block, r, boundaryY, maxSteps)
              IN  IF offset <= 0
                  THEN IF previousTextNode # 0
                       THEN [run |-> previousTextNode,
                             offset |-> Len(runs[previousTextNode])]
                       ELSE NoSplit
                  ELSE [run |-> r, offset |-> offset]

findNoSplitPoint(block, boundaryY, maxSteps, api) == NoSplit

findSplitPointWithinBlock(block, boundaryY, maxSteps, api) ==
    LET normalized == CaretProbe(block, boundaryY, api)
        accepted ==
            /\ normalized # NoSplit
            /\ measureBlockToTextOffsetBottomY(block, normalized.run, normalized.offset)
                   <= boundaryY
            /\ normalized.offset > 0
    IN  IF accepted THEN normalized
        ELSE ScanTextNodes(block, boundaryY, maxSteps, 1, 0)

(***************************************************************************)
(* computePageBreaks.  A break names its target by the index of the block  *)
(* (element) or by the pair (block, run) of the text node and the offset.  *)
(***************************************************************************)
BeforeElement(i, y) ==
    [kind |-> "before-element", element |-> i, run |-> 0, offset |-> 0, pageStartY |-> y]

TextOffset(i, split, y) ==
    [kind |-> "text-offset", element |-> i, run |-> split.run, offset |-> split.offset,
     pageStartY |-> y]

pageStridePx(o) == o.pageHeightPx + o.topMarginPx + o.bottomMarginPx + o.pageGapPx

isVisibleAlways(block) == TRUE

\* isVisibleElement (width is not modelled: every block is as wide as the root).
isVisibleElement(block) == block.bottom - block.top > 0

RECURSIVE SkipPages(_, _, _, _)
\* while (top >= currentPageBottom) { push before-element; advance }
SkipPages(i, top, st, stride) ==
    IF top >= st.currentPageBottom
    THEN SkipPages(i, top,
             [breaks |-> Append(st.breaks, BeforeElement(i, st.currentPageBottom)),
              currentPageBottom |-> st.currentPageBottom + stride],
             stride)
    ELSE st

EmitTextOffsetStuck(i, split, st, stride) ==
    [breaks |-> Append(st.breaks, TextOffset(i, split, st.currentPageBottom)),
     currentPageBottom |-> st.currentPageBottom]

EmitTextOffset(i, split, st, stride) ==
    [breaks |-> Append(st.breaks, TextOffset(i, split, st.currentPageBottom)),
     currentPageBottom |-> st.currentPageBottom + stride]

EmitBeforeElementStuck(i, st, stride) ==
    [breaks |-> Append(st.breaks, BeforeElement(i, st.currentPageBottom)),
     currentPageBottom |-> st.currentPageBottom]

EmitBeforeElement(i, st, stride) ==
    [breaks |-> Append(st.breaks, BeforeElement(i, st.currentPageBottom)),
     currentPageBottom |-> st.currentPageBottom + stride]

\* One iteration of the for loop over the visible blocks.
PaginateBlock(bs, i, st, stride, api) ==
    LET block == bs[i] IN
    IF block.bottom <= st.currentPageBottom THEN st
    ELSE LET skipped == SkipPages(i, block.top, st, stride)
             split   == findSplitPointWithinBlock(block, skipped.currentPageBottom,
                                                  maxBinarySearchSteps, api)
         IN  IF split # NoSplit
             THEN EmitTextOffset(i, split, skipped, stride)
             ELSE EmitBeforeElement(i, skipped, stride)

\* root.scrollHeight: the bottom of the lowest block.
scrollHeight(bs) ==
    IF Len(bs) = 0 THEN 0
    ELSE CHOOSE y \in { bs[k].bottom : k \in 1..Len(bs) } :
             \A k \in 1..Len(bs) : bs[k].bottom <= y

RECURSIVE PaginateFrom(_, _, _, _, _)
PaginateFrom(bs, i, st, stride, api) ==
    IF i > Len(bs) THEN st
    ELSE PaginateFrom(bs, i + 1, PaginateBlock(bs, i, st, stride, api), stride, api)

computePageBreaks(bs, o, api) ==
    LET visible == SelectSeq(bs, isVisibleElement)
        final   == PaginateFrom(visible, 1,
                       [breaks |-> << >>,
                        currentPageBottom |-> o.topMarginPx + o.pageHeightPx],
                       pageStridePx(o), api)
    IN  [pageHeightPx   |-> o.pageHeightPx,
         topMarginPx    |-> o.topMarginPx,
         bottomMarginPx |-> o.bottomMarginPx,
         pageGapPx      |-> o.pageGapPx,
         pageStridePx   |-> pageStridePx(o),
         breaks         |-> final.breaks,
         contentHeightPx |-> scrollHeight(bs)]

\* PageContainer: the number of pages drawn for a pagination result, << >> being
\* the null result and << r >> the result r.
pageCount(pagination) ==
    IF pagination # << >>
    THEN LET n == Len(pagination[1].breaks) + 1 IN IF n > 1 THEN n ELSE 1
    ELSE 1

(***************************************************************************)
(* usePagination: the reactive scheduler.                                  *)
(*                                                                         *)
(* sched holds the three refs (destroyedRef, timeoutIdRef, rafIdRef; 0 is  *)
(* null), the result state, the browser's outstanding timers and frame     *)
(* callbacks, the sessions whose ResizeObserver is connected and whose     *)
(* update handler the editor still holds.  A session is one run of the     *)
(* effect; its callbacks close over the session's root.  The remaining     *)
(* fields record what happened: live is the session whose cleanup is still *)
(* to run, a burst is a maximal run of change events each less than        *)
(* debounceMs after the one before.                                        *)
(***************************************************************************)
MaxTime == 5
MaxEvents == 3
MaxSessions == 2
debounceMs == 2

NoResult == [by |-> 0, seen |-> 0, ctx |-> "", queuedBy |-> "", setBy |-> ""]

SchedInit ==
    [destroyedRef |-> FALSE, timeoutIdRef |-> 0, rafIdRef |-> 0, result |-> NoResult,
     timers |-> {}, frames |-> {}, nextId |-> 1,
     observing |-> {}, subs |-> << >>,
     live |-> 0, stale |-> FALSE, events |-> 0,
     lastEventAt |-> -1, lastEventOf |-> << >>, eventsOf |-> << >>, computes |-> << >>,
     computedAt |-> << >>, superseded |-> << >>, tornDown |-> << >>,
     replacedTimer |-> FALSE, replacedFrame |-> FALSE]

SchedIdle ==
    /\ now = 0
    /\ session = 0
    /\ roots = << >>
    /\ unmounted = FALSE
    /\ editor = [hasOn |-> FALSE, hasOff |-> FALSE]
    /\ sched = SchedInit

Burst(st) == Len(st.lastEventOf)

\* Bursts other than b whose timer or frame is among the cancelled ones.
MarkSuperseded(st, cancelled, b) ==
    [k \in 1..Len(st.superseded) |->
        st.superseded[k] \/ (k # b /\ \E c \in cancelled : c.burst = k)]

\* window.clearTimeout(timeoutIdRef.current), guarded by the ref being set.
ClearTimeout(st) ==
    IF st.timeoutIdRef # 0 THEN { t \in st.timers : t.id # st.timeoutIdRef }
    ELSE st.timers

\* cancelAnimationFrame(rafIdRef.current), guarded by the ref being set.
CancelFrame(st) ==
    IF st.rafIdRef # 0 THEN { f \in st.frames : f.id # st.rafIdRef }
    ELSE st.frames

\* A change event reaches the debounce: it opens a burst or joins the current one.
NoteEvent(st) ==
    IF st.lastEventAt < 0 \/ now - st.lastEventAt >= debounceMs
    THEN [st EXCEPT !.lastEventAt = now,
                    !.lastEventOf = Append(@, now),
                    !.eventsOf = Append(@, 1),
                    !.computes = Append(@, 0),
                    !.computedAt = Append(@, -1),
                    !.superseded = Append(@, FALSE),
                    !.tornDown = Append(@, FALSE)]
    ELSE [st EXCEPT !.lastEventAt = now,
                    !.lastEventOf[Burst(st)] = now,
                    !.eventsOf[Burst(st)] = @ + 1]

scheduleRecomputeNoClear(st, s, root, ctx) ==
    IF ~root THEN st
    ELSE IF st.destroyedRef THEN st
    ELSE LET ev == NoteEvent(st)
         IN  [ev EXCEPT
                 !.timers = st.timers \cup
                     { [id |-> st.nextId, due |-> now + debounceMs, owner |-> s,
                        setBy |-> ctx, burst |-> Burst(ev)] },
                 !.timeoutIdRef = st.nextId,
                 !.nextId = st.nextId + 1,
                 !.stale = st.stale \/ s # st.live]

recomputeNowNoCancel(st, s, root, ctx, timer) ==
    IF ~root THEN st
    ELSE IF st.destroyedRef THEN st
    ELSE [st EXCEPT
             !.frames = st.frames \cup
                 { [id |-> st.nextId, owner |-> s, queuedBy |-> ctx,
                    setBy |-> timer.setBy, burst |-> timer.burst] },
             !.rafIdRef = st.nextId,
             !.nextId = st.nextId + 1,
             !.stale = st.stale \/ s # st.live]

recomputeNowSync(st, s, root, ctx, timer) ==
    IF ~root THEN st
    ELSE IF st.destroyedRef THEN st
    ELSE [st EXCEPT
             !.result = [by |-> s, seen |-> st.events, ctx |-> ctx,
                         queuedBy |-> "", setBy |-> timer.setBy],
             !.computes[timer.burst] = @ + 1,
             !.computedAt[timer.burst] = now,
             !.stale = st.stale \/ s # st.live]

scheduleRecomputeCancelOnly(st, s, root, ctx) ==
    IF ~root THEN st
    ELSE IF st.destroyedRef THEN st
    ELSE IF st.timeoutIdRef # 0
    THEN [NoteEvent(st) EXCEPT !.timers = ClearTimeout(st), !.timeoutIdRef = 0]
    ELSE LET ev == NoteEvent(st)
         IN  [ev EXCEPT
                 !.timers = st.timers \cup
                     { [id |-> st.nextId, due |-> now + debounceMs, owner |-> s,
                        setBy |-> ctx, burst |-> Burst(ev)] },
                 !.timeoutIdRef = st.nextId,
                 !.nextId = st.nextId + 1]

\* recomputeNow of session s, called in context ctx (lines 49-67): queues the frame.
recomputeNow(st, s, root, ctx, timer) ==
    IF ~root THEN st
    ELSE IF st.destroyedRef THEN st
    ELSE LET kept == CancelFrame(st)
         IN  [st EXCEPT
                 !.frames = kept \cup
                     { [id |-> st.nextId, owner |-> s, queuedBy |-> ctx,
                        setBy |-> timer.setBy, burst |-> timer.burst] },
                 !.rafIdRef = st.nextId,
                 !.nextId = st.nextId + 1,
                 !.superseded = MarkSuperseded(st, st.frames \ kept, timer.burst),
                 !.replacedFrame = st.replacedFrame \/ kept # st.frames,
                 !.stale = st.stale \/ s # st.live]

scheduleRecomputeDirect(st, s, root, ctx) ==
    IF ~root \/ st.destroyedRef THEN st
    ELSE LET ev == NoteEvent(st)
         IN  recomputeNow(ev, s, root, ctx, [setBy |-> ctx, burst |-> Burst(ev)])

\* scheduleRecompute of session s, called in context ctx (lines 69-78).
scheduleRecompute(st, s, root, ctx) ==
    IF ~root THEN st
    ELSE IF st.destroyedRef THEN st
    ELSE LET ev   == NoteEvent(st)
             kept == ClearTimeout(st)
         IN  [ev EXCEPT
                 !.timers = kept \cup
                     { [id |-> st.nextId, due |-> now + debounceMs, owner |-> s,
                        setBy |-> ctx, burst |-> Burst(ev)] },
                 !.timeoutIdRef = st.nextId,
                 !.nextId = st.nextId + 1,
                 !.superseded = MarkSuperseded(ev, st.timers \ kept, Burst(ev)),
                 !.replacedTimer = st.replacedTimer \/ kept # st.timers,
                 !.stale = st.stale \/ s # st.live]

\* The callback given to window.setTimeout (lines 74-77).
timeoutCallback(st, t) ==
    recomputeNow([st EXCEPT !.timers = @ \ {t}, !.timeoutIdRef = 0],
                 t.owner, roots[t.owner], "timer", t)

\* The callback given to requestAnimationFrame (lines 55-66).  The result records
\* who measured, how many change events the measured layout reflects, and the
\* chain of callbacks that led to the call of computePageBreaks.
frameCallback(st, f) ==
    LET ran == [st EXCEPT !.frames = @ \ {f}, !.rafIdRef = 0]
    IN  IF ran.destroyedRef THEN ran
        ELSE [ran EXCEPT
                 !.result = [by |-> f.owner, seen |-> st.events, ctx |-> "frame",
                             queuedBy |-> f.queuedBy, setBy |-> f.setBy],
                 !.computes[f.burst] = @ + 1,
                 !.computedAt[f.burst] = now,
                 !.stale = st.stale \/ f.owner # st.live]

\* The body of the effect for session s (lines 86-103).
effect(st, s, root, ed) ==
    LET fresh == [st EXCEPT !.destroyedRef = FALSE, !.live = 0]
    IN  IF ~root THEN fresh
        ELSE scheduleRecompute(
                 [fresh EXCEPT !.observing = @ \cup {s},
                               !.subs = IF ed.hasOn THEN Append(@, s) ELSE @,
                               !.live = s],
                 s, root, "mount")

\* The cleanup returned by the effect of session s (lines 105-120).
cleanup(st, s, ed) ==
    LET gone == (st.timers \ ClearTimeout(st)) \cup (st.frames \ CancelFrame(st))
    IN  [st EXCEPT
            !.destroyedRef = TRUE,
            !.observing = @ \ {s},
            !.subs = IF ed.hasOff THEN SelectSeq(@, LAMBDA x : x # s) ELSE @,
            !.timers = ClearTimeout(st),
            !.timeoutIdRef = 0,
            !.frames = CancelFrame(st),
            !.rafIdRef = 0,
            !.live = 0,
            !.tornDown = [k \in 1..Len(st.tornDown) |->
                             st.tornDown[k] \/ \E c \in gone : c.burst = k]]

\* The editor emits "update": every handler it holds runs, in subscription order.
RECURSIVE emitUpdate(_, _, _)
emitUpdate(st, handlers, k) ==
    IF k > Len(handlers) THEN st
    ELSE emitUpdate(scheduleRecompute(st, handlers[k], roots[handlers[k]], "update"),
                    handlers, k + 1)

Editors ==
    { [hasOn |-> TRUE, hasOff |-> TRUE], [hasOn |-> TRUE, hasOff |-> FALSE],
      [hasOn |-> FALSE, hasOff |-> FALSE] }

EngineIdle ==
    /\ blocks = << >>
    /\ opts = [pageHeightPx |-> 1, topMarginPx |-> 0, bottomMarginPx |-> 0, pageGapPx |-> 0]
    /\ caretApi = "none"
    /\ out = << >>

InitSched ==
    /\ now = 0
    /\ session = 0
    /\ roots = << >>
    /\ unmounted = FALSE
    /\ editor \in Editors
    /\ sched = SchedInit
    /\ EngineIdle
    /\ PluginIdle
    /\ CallIdle

\* First run of the effect.
Mount ==
    /\ session = 0
    /\ \E root \in BOOLEAN :
           /\ roots' = Append(roots, root)
           /\ sched' = effect(sched, 1, root, editor)
    /\ session' = 1
    /\ UNCHANGED <<now, unmounted, editor>>
    /\ UNCHANGED engineVars
    /\ UNCHANGED pluginVars
    /\ UNCHANGED callVars

\* A dependency of the effect changed: the cleanup of the last run (if it returned
\* one) and the next run of the effect, in the same commit.
Rerender ==
    /\ session >= 1
    /\ session < MaxSessions
    /\ ~unmounted
    /\ \E root \in BOOLEAN :
           /\ roots' = Append(roots, root)
           /\ sched' = effect(IF sched.live # 0 THEN cleanup(sched, sched.live, editor)
                              ELSE sched,
                              session + 1, root, editor)
    /\ session' = session + 1
    /\ UNCHANGED <<now, unmounted, editor>>
    /\ UNCHANGED engineVars
    /\ UNCHANGED pluginVars
    /\ UNCHANGED callVars

\* The component unmounts: the cleanup of the last run, if it returned one.
Unmount ==
    /\ session >= 1
    /\ ~unmounted
    /\ unmounted' = TRUE
    /\ sched' = IF sched.live # 0 THEN cleanup(sched, sched.live, editor) ELSE sched
    /\ UNCHANGED <<now, session, roots, editor>>
    /\ UNCHANGED engineVars
    /\ UNCHANGED pluginVars
    /\ UNCHANGED callVars

\* The ResizeObserver of a session reports a size change.
ResizeEvent ==
    /\ sched.events < MaxEvents
    /\ \E s \in sched.observing :
           sched' = scheduleRecompute([sched EXCEPT !.events = @ + 1],
                                      s, roots[s], "resize")
    /\ UNCHANGED <<now, session, roots, unmounted, editor>>
    /\ UNCHANGED engineVars
    /\ UNCHANGED pluginVars
    /\ UNCHANGED callVars

\* The editor emits an update event.
EditorUpdate ==
    /\ sched.events < MaxEvents
    /\ sched.subs # << >>
    /\ sched' = emitUpdate([sched EXCEPT !.events = @ + 1], sched.subs, 1)
    /\ UNCHANGED <<now, session, roots, unmounted, editor>>
    /\ UNCHANGED engineVars
    /\ UNCHANGED pluginVars
    /\ UNCHANGED callVars

\* A debounce timer expires: not before it is due, possibly later.
TimerExpiry ==
    /\ \E t \in sched.timers :
           /\ t.due <= now
           /\ sched' = timeoutCallback(sched, t)
    /\ UNCHANGED <<now, session, roots, unmounted, editor>>
    /\ UNCHANGED engineVars
    /\ UNCHANGED pluginVars
    /\ UNCHANGED callVars

\* The browser runs a queued animation-frame callback.
Frame ==
    /\ \E f \in sched.frames : sched' = frameCallback(sched, f)
    /\ UNCHANGED <<now, session, roots, unmounted, editor>>
    /\ UNCHANGED engineVars
    /\ UNCHANGED pluginVars
    /\ UNCHANGED callVars

Tick ==
    /\ now < MaxTime
    /\ now' = now + 1
    /\ UNCHANGED <<session, roots, unmounted, editor, sched>>
    /\ UNCHANGED engineVars
    /\ UNCHANGED pluginVars
    /\ UNCHANGED callVars

NextSched ==
    \/ Mount
    \/ Rerender
    \/ Unmount
    \/ ResizeEvent
    \/ EditorUpdate
    \/ TimerExpiry
    \/ Frame
    \/ Tick

SpecSched == InitSched /\ [][NextSched]_vars

(***************************************************************************)
(* The scheduler of one session that is never torn down: the effect runs   *)
(* once and neither its cleanup nor a second run follows.  Time is only    *)
(* followed while a timer waits for it, and the browser runs every timer   *)
(* that is due and every queued frame callback in the end.                 *)
(***************************************************************************)
MaxLiveEvents == 2

\* A size change, while change events still come.
LiveResize == sched.events < MaxLiveEvents /\ ResizeEvent

\* An editor update, while change events still come.
LiveUpdate == sched.events < MaxLiveEvents /\ EditorUpdate

\* Time passes while a debounce timer is not due yet.
Wait ==
    /\ \E t \in sched.timers : t.due > now
    /\ now' = now + 1
    /\ UNCHANGED <<session, roots, unmounted, editor, sched>>
    /\ UNCHANGED engineVars
    /\ UNCHANGED pluginVars
    /\ UNCHANGED callVars

NextLive ==
    \/ Mount
    \/ LiveResize
    \/ LiveUpdate
    \/ TimerExpiry
    \/ Frame
    \/ Wait

SpecLive ==
    /\ InitSched
    /\ [][NextLive]_vars
    /\ WF_vars(TimerExpiry)
    /\ WF_vars(Frame)
    /\ WF_vars(Wait)

(***************************************************************************)
(* The Pagination extension: its two commands and the plugin's state.      *)
(*                                                                         *)
(* The document is its content size; a position is an offset in            *)
(* 0..docSize.  A transaction is its step maps (the ranges start, oldSize, *)
(* newSize it replaces) and its pagination meta, << >> when it has none.   *)
(* A decoration is a widget: its position, its side, the class of its      *)
(* element and the height of the spacer.                                   *)
(***************************************************************************)
MaxDoc == 2
MaxBreaks == 1

SpacerHeights == {0, 1}

\* The three heights of a break set: each zero or positive, or all three negative.
SpacerTriples ==
    (SpacerHeights \X SpacerHeights \X SpacerHeights) \cup { << -1, -1, -1 >> }

Widget(pos, side, class, height) ==
    [pos |-> pos, side |-> side, class |-> class, height |-> height]

\* StepMap.mapResult of prosemirror-transform for one replaced range: the mapped
\* position, and whether the content on the assoc side of it was deleted.
StepMapResult(step, pos, assoc) ==
    LET end == step.start + step.oldSize IN
    IF pos < step.start THEN [pos |-> pos, deleted |-> FALSE]
    ELSE IF pos <= end
    THEN LET side == IF step.oldSize = 0 THEN assoc
                     ELSE IF pos = step.start THEN -1
                     ELSE IF pos = end THEN 1
                     ELSE assoc
         IN  [pos     |-> step.start + (IF side < 0 THEN 0 ELSE step.newSize),
              deleted |-> IF assoc < 0 THEN pos # step.start ELSE pos # end]
    ELSE [pos |-> pos + step.newSize - step.oldSize, deleted |-> FALSE]

RECURSIVE MappingResult(_, _, _, _, _)
\* Mapping.mapResult: the step maps of tr.mapping applied in turn.
MappingResult(steps, k, pos, assoc, deleted) ==
    IF k > Len(steps) THEN [pos |-> pos, deleted |-> deleted]
    ELSE LET r == StepMapResult(steps[k], pos, assoc)
         IN  MappingResult(steps, k + 1, r.pos, assoc, deleted \/ r.deleted)

WidgetMapBefore(steps, w) == MappingResult(steps, 1, w.pos, -1, FALSE)

\* A widget maps with assoc -1 when its side is negative and 1 otherwise.
WidgetMap(steps, w) == MappingResult(steps, 1, w.pos, IF w.side < 0 THEN -1 ELSE 1, FALSE)

RECURSIVE MapFrom(_, _, _)
MapFrom(decos, steps, k) ==
    IF k > Len(decos) THEN << >>
    ELSE LET r == WidgetMap(steps, decos[k])
         IN  (IF r.deleted THEN << >> ELSE << [decos[k] EXCEPT !.pos = r.pos] >>)
             \o MapFrom(decos, steps, k + 1)

RECURSIVE ShiftFrom(_, _, _)
ShiftFrom(decos, steps, k) ==
    IF k > Len(decos) THEN << >>
    ELSE LET delta == IF Len(steps) = 0 THEN 0
                      ELSE steps[1].newSize - steps[1].oldSize
         IN  << [decos[k] EXCEPT !.pos = Max2(0, @ + delta)] >>
             \o ShiftFrom(decos, steps, k + 1)

MapDecorationsShift(decos, steps) == ShiftFrom(decos, steps, 1)

\* prev.decorations.map(tr.mapping, tr.doc): every widget mapped, the deleted dropped.
MapDecorations(decos, steps) == MapFrom(decos, steps, 1)

ClampedDistinct(breakPositions, size) ==
    LET arr == [k \in 1..Len(breakPositions) |->
                   Max2(0, Min2(breakPositions[k], size))]
        F[k \in 0..Len(arr)] ==
            IF k = 0 THEN << >>
            ELSE IF \E j \in 1..(k - 1) : arr[j] = arr[k] THEN F[k - 1]
                 ELSE Append(F[k - 1], arr[k])
    IN  F[Len(arr)]

\* meta.breakPositions clamped to the document and filtered against the element
\* before (lines 587-589).
Clamped(breakPositions, size) ==
    LET arr == [k \in 1..Len(breakPositions) |->
                   Max2(0, Min2(breakPositions[k], size))]
        keep(k) == k = 1 \/ arr[k] # arr[k - 1]
        F[k \in 0..Len(arr)] ==
            IF k = 0 THEN << >>
            ELSE IF keep(k) THEN Append(F[k - 1], arr[k]) ELSE F[k - 1]
    IN  F[Len(arr)]

RebuildUnguarded(meta, size) ==
    << Widget(0, -1, "pm-page-top-spacer", meta.topSpacerPx),
       Widget(size, 1, "pm-page-bottom-spacer", meta.bottomSpacerPx) >>
    \o [k \in 1..Len(Clamped(meta.breakPositions, size)) |->
           Widget(Clamped(meta.breakPositions, size)[k], -1, "pm-page-break",
                  meta.betweenSpacerPx)]

\* The decorations built from the meta (lines 591-637).
Rebuild(meta, size) ==
    LET clamped == Clamped(meta.breakPositions, size)
        top     == IF meta.topSpacerPx > 0
                   THEN << Widget(0, -1, "pm-page-top-spacer", meta.topSpacerPx) >>
                   ELSE << >>
        bottom  == IF meta.bottomSpacerPx > 0
                   THEN << Widget(size, 1, "pm-page-bottom-spacer", meta.bottomSpacerPx) >>
                   ELSE << >>
        between == IF meta.betweenSpacerPx <= 0 THEN << >>
                   ELSE [k \in 1..Len(clamped) |->
                            Widget(clamped[k], -1, "pm-page-break", meta.betweenSpacerPx)]
    IN  top \o bottom \o between

applyKeepOld(tr, prev, newSize) ==
    LET mapped == MapDecorations(prev, tr.steps)
    IN  IF tr.meta = << >> THEN mapped
        ELSE mapped \o Rebuild(tr.meta[1], newSize)

applyNoMap(tr, prev, newSize) ==
    IF tr.meta = << >> THEN prev
    ELSE Rebuild(tr.meta[1], newSize)

\* state.apply of the plugin (lines 575-640); newSize is newState.doc.content.size.
apply(tr, prev, newSize) ==
    LET mapped == MapDecorations(prev, tr.steps)
    IN  IF tr.meta = << >> THEN mapped
        ELSE Rebuild(tr.meta[1], newSize)

RECURSIVE SizeAfter(_, _, _)
SizeAfter(steps, k, size) ==
    IF k > Len(steps) THEN size
    ELSE SizeAfter(steps, k + 1, size + steps[k].newSize - steps[k].oldSize)

\* The editor dispatches tr: the document changes and every plugin applies it.
Dispatch(tr) ==
    /\ docSize' = SizeAfter(tr.steps, 1, docSize)
    /\ decorations' = apply(tr, decorations, SizeAfter(tr.steps, 1, docSize))
    /\ lastTr' = tr
    /\ repeats' = IF tr = lastTr THEN 1 ELSE 0
    /\ dropped' = Len(decorations) - Len(MapDecorations(decorations, tr.steps))

RECURSIVE SeqsUpTo(_, _)
SeqsUpTo(S, n) ==
    IF n = 0 THEN { << >> }
    ELSE LET shorter == SeqsUpTo(S, n - 1)
         IN  shorter \cup
             { Append(q, x) : q \in { r \in shorter : Len(r) = n - 1 }, x \in S }

\* The break lists a caller may pass for a document of this size: unsorted,
\* repeated and out of range positions included.
BreakLists(size) == SeqsUpTo(-1..(size + 1), MaxBreaks)

\* The command setPaginationBreaks (lines 533-550): the meta on an empty transaction.
SetPaginationBreaks ==
    /\ \E bp \in BreakLists(docSize) :
       \E px \in SpacerTriples :
           Dispatch([steps |-> << >>,
                     meta |-> << [breakPositions |-> bp, topSpacerPx |-> px[1],
                                  betweenSpacerPx |-> px[2],
                                  bottomSpacerPx |-> px[3]] >>])
    /\ UNCHANGED engineVars
    /\ UNCHANGED schedVars
    /\ UNCHANGED callVars

\* The command clearPaginationBreaks (lines 552-564).
ClearPaginationBreaks ==
    /\ Dispatch([steps |-> << >>,
                 meta |-> << [breakPositions |-> << >>, topSpacerPx |-> 0,
                              betweenSpacerPx |-> 0, bottomSpacerPx |-> 0] >>])
    /\ UNCHANGED engineVars
    /\ UNCHANGED schedVars
    /\ UNCHANGED callVars

\* An edit of the document: oldSize positions from start replaced by newSize.
Edit ==
    /\ \E start \in 0..docSize :
       \E oldSize \in 0..(docSize - start) :
       \E newSize \in 0..MaxDoc :
           /\ oldSize + newSize > 0
           /\ docSize - oldSize + newSize <= MaxDoc
           /\ Dispatch([steps |-> << [start |-> start, oldSize |-> oldSize,
                                      newSize |-> newSize] >>,
                        meta |-> << >>])
    /\ UNCHANGED engineVars
    /\ UNCHANGED schedVars
    /\ UNCHANGED callVars

\* A transaction that changes neither the document nor the breaks (a selection).
SelectionChange ==
    /\ Dispatch(NoTr)
    /\ UNCHANGED engineVars
    /\ UNCHANGED schedVars
    /\ UNCHANGED callVars

InitPlugin ==
    /\ docSize \in 0..MaxDoc
    /\ decorations = << >>
    /\ lastTr = NoTr
    /\ repeats = 0
    /\ dropped = 0
    /\ CallIdle
    /\ EngineIdle
    /\ SchedIdle

NextPlugin ==
    \/ SetPaginationBreaks
    \/ ClearPaginationBreaks
    \/ Edit
    \/ SelectionChange

SpecPlugin == InitPlugin /\ [][NextPlugin]_vars

(***************************************************************************)
(* The rebuild branch of apply as a function of the meta, the document     *)
(* size and the spacer set before it: one transaction with a new break set *)
(* applied to a plugin state that an earlier break set has left.           *)
(***************************************************************************)
MaxList == 3

AnyHeights == {-1, 0, 1}

Meta(bp, top, between, bottom) ==
    [breakPositions |-> bp, topSpacerPx |-> top,
     betweenSpacerPx |-> between, bottomSpacerPx |-> bottom]

\* The spacer sets an earlier setPaginationBreaks leaves for a document of this size.
PriorSets(size) ==
    { << >> } \cup { Rebuild(Meta(bp, 1, 1, 1), size) : bp \in SeqsUpTo(0..size, 1) }

InitRebuild ==
    /\ docSize \in 0..MaxDoc
    /\ decorations \in PriorSets(docSize)
    /\ lastTr = NoTr
    /\ repeats = 0
    /\ dropped = 0
    /\ CallIdle
    /\ EngineIdle
    /\ SchedIdle

\* setPaginationBreaks with any list and any heights, applied by the plugin.
ApplyBreakSet ==
    /\ lastTr = NoTr
    /\ \E bp \in SeqsUpTo(-1..(docSize + 1), MaxList) :
       \E top \in AnyHeights, between \in AnyHeights, bottom \in AnyHeights :
           Dispatch([steps |-> << >>, meta |-> << Meta(bp, top, between, bottom) >>])
    /\ UNCHANGED engineVars
    /\ UNCHANGED schedVars
    /\ UNCHANGED callVars

NextRebuild == ApplyBreakSet

SpecRebuild == InitRebuild /\ [][NextRebuild]_vars

(***************************************************************************)
(* The whitespace refinement of binarySearchSplitOffset as a function of   *)
(* the text of the run and the raw offset the binary search has found.     *)
(***************************************************************************)
MaxRun == 42
MaxSpaces == 1

\* A run of n characters, whitespace at the positions in spaces.
Run(n, spaces) == [k \in 1..n |-> IF k \in spaces THEN " " ELSE "a"]

RECURSIVE SpacesIn(_, _)
\* The sets of at most k positions of a run of n characters.
SpacesIn(n, k) ==
    IF k = 0 THEN { {} }
    ELSE LET fewer == SpacesIn(n, k - 1)
         IN  fewer \cup { S \cup {j} : S \in fewer, j \in 1..n }

Runs == UNION { { Run(n, spaces) : spaces \in SpacesIn(n, MaxSpaces) } : n \in 0..MaxRun }

InitRefine ==
    /\ \E data \in Runs : \E best \in 0..Len(data) :
           args = [data |-> data, best |-> best]
    /\ ret = << >>
    /\ loop = << >>
    /\ EngineIdle
    /\ SchedIdle
    /\ PluginIdle

\* Lines 344-356 run on the run's text and the raw offset.
Refine ==
    /\ ret = << >>
    /\ ret' = << RefineOffset(args.data, args.best) >>
    /\ UNCHANGED <<args, loop, engineVars, schedVars, pluginVars>>

NextRefine == Refine

SpecRefine == InitRefine /\ [][NextRefine]_vars

(***************************************************************************)
(* binarySearchSplitOffset as a function of the block, the text run, the   *)
(* boundary and the number of probe steps allowed.  The block holds one or *)
(* two text runs laid out from its top; ret holds best as the while loop   *)
(* leaves it and the offset returned.                                      *)
(***************************************************************************)
MaxSteps == 3
MaxChars == 8
MaxLead == 2

SearchTexts ==
    { << Fill(n) >> : n \in 1..MaxChars } \cup
    { << Fill(m), Fill(n) >> : m \in 1..MaxLead, n \in 1..MaxChars }

SearchBlocks ==
    { [top |-> t, bottom |-> t + CeilDiv(TotalChars(text), CharsPerLine), text |-> text] :
          t \in 0..1, text \in SearchTexts }

InitSearch ==
    /\ \E block \in SearchBlocks :
       \E r \in 1..Len(block.text) :
       \E boundaryY \in 0..(block.bottom + 1) :
       \E maxSteps \in 1..MaxSteps :
           args = [block |-> block, r |-> r, boundaryY |-> boundaryY,
                   maxSteps |-> maxSteps]
    /\ ret = << >>
    /\ loop = << >>
    /\ EngineIdle
    /\ SchedIdle
    /\ PluginIdle

\* The call binarySearchSplitOffset({ block, textNode, boundaryY, maxSteps }).
Search ==
    /\ ret = << >>
    /\ ret' = << [best   |-> BinarySearch(args.block, args.r, args.boundaryY,
                                          args.maxSteps, 0, Len(args.block.text[args.r]),
                                          0, 0),
                  offset |-> binarySearchSplitOffset(args.block, args.r, args.boundaryY,
                                                     args.maxSteps)] >>
    /\ UNCHANGED <<args, loop, engineVars, schedVars, pluginVars>>

NextSearch == Search

SpecSearch == InitSearch /\ [][NextSearch]_vars

(***************************************************************************)
(* TiptapEditor: the projection of the engine's anchors onto the document. *)
(*                                                                         *)
(* The document is a number of blocks, each a text node of TextLen         *)
(* characters between its opening and its closing token.  An anchor names  *)
(* a block (element) and, for a text-offset anchor, an offset in its text; *)
(* a block beyond the last one is a DOM node the document no longer holds, *)
(* for which posAtDOM throws.  args holds the anchors of the pagination    *)
(* result, the blocks of the document and lastBreakPositionsRef; ret holds *)
(* the positions computed, whether the command was issued and the ref      *)
(* after the effect.                                                       *)
(***************************************************************************)
PAGE_MARGIN_PX == 96
PAGE_GAP_PX == 24

MaxBlocks == 1
MaxAnchors == 3
TextLen == 1

Anchors ==
    { [kind |-> "before-element", element |-> e, offset |-> 0] : e \in 1..(MaxBlocks + 1) }
    \cup { [kind |-> "text-offset", element |-> e, offset |-> o] :
               e \in 1..(MaxBlocks + 1), o \in 0..TextLen }

\* editor.view.posAtDOM: << the position >>, or << >> when it throws.
posAtDOM(nBlocks, a) ==
    IF a.element > nBlocks THEN << >>
    ELSE << (a.element - 1) * (TextLen + 2) + 1 + a.offset >>

RECURSIVE Resolve(_, _, _)
\* The for loop of anchorsToDocPositions: the positions pushed, in anchor order.
Resolve(nBlocks, anchors, k) ==
    IF k > Len(anchors) THEN << >>
    ELSE posAtDOM(nBlocks, anchors[k]) \o Resolve(nBlocks, anchors, k + 1)

RECURSIVE SortAscending(_)
\* positions.sort((x, y) => x - y)
SortAscending(positions) ==
    IF positions = << >> THEN << >>
    ELSE LET k == CHOOSE i \in 1..Len(positions) :
                      \A j \in 1..Len(positions) : positions[i] <= positions[j]
         IN  << positions[k] >>
             \o SortAscending(SubSeq(positions, 1, k - 1)
                                  \o SubSeq(positions, k + 1, Len(positions)))

\* positions.filter((p, i) => i === 0 || p !== positions[i - 1])
FilterRepeats(positions) ==
    LET F[k \in 0..Len(positions)] ==
            IF k = 0 THEN << >>
            ELSE IF k = 1 \/ positions[k] # positions[k - 1]
                 THEN Append(F[k - 1], positions[k])
                 ELSE F[k - 1]
    IN  F[Len(positions)]

RECURSIVE ResolveOrAbort(_, _, _)
ResolveOrAbort(nBlocks, anchors, k) ==
    IF k > Len(anchors) THEN << >>
    ELSE IF posAtDOM(nBlocks, anchors[k]) = << >> THEN << >>
         ELSE posAtDOM(nBlocks, anchors[k]) \o ResolveOrAbort(nBlocks, anchors, k + 1)

anchorsToDocPositionsAbort(nBlocks, anchors) ==
    IF \E k \in 1..Len(anchors) : posAtDOM(nBlocks, anchors[k]) = << >> THEN << >>
    ELSE FilterRepeats(SortAscending(ResolveOrAbort(nBlocks, anchors, 1)))

anchorsToDocPositions(nBlocks, anchors) ==
    FilterRepeats(SortAscending(Resolve(nBlocks, anchors, 1)))

\* lastBreakPositionsRef: "__init__", or the key of the positions issued last.
InitRef == [issued |-> FALSE, key |-> << >>]

RefOf(positions) == [issued |-> TRUE, key |-> positions]

\* The break set of line 82.
ProjectedMeta(positions) ==
    Meta(positions, PAGE_MARGIN_PX, PAGE_MARGIN_PX + PAGE_GAP_PX + PAGE_MARGIN_PX,
         PAGE_MARGIN_PX)

InitProjection ==
    /\ \E nBlocks \in 0..MaxBlocks :
       \E anchors \in SeqsUpTo(Anchors, MaxAnchors) :
       \E ref \in { InitRef } \cup
                   { RefOf(anchorsToDocPositions(nBlocks, l)) : l \in SeqsUpTo(Anchors, 1) } :
           /\ args = [nBlocks |-> nBlocks, anchors |-> anchors,
                      lastBreakPositionsRef |-> ref]
           /\ docSize = nBlocks * (TextLen + 2)
           /\ decorations = IF ref = InitRef THEN << >>
                            ELSE Rebuild(ProjectedMeta(ref.key), docSize)
    /\ ret = << >>
    /\ loop = << >>
    /\ lastTr = NoTr
    /\ repeats = 0
    /\ dropped = 0
    /\ EngineIdle
    /\ SchedIdle

\* The effect of lines 68-83 for a pagination result with these anchors.
ProjectionEffect ==
    /\ ret = << >>
    /\ LET positions == anchorsToDocPositions(args.nBlocks, args.anchors)
           skip      == RefOf(positions) = args.lastBreakPositionsRef
       IN  /\ ret' = << [positions |-> positions, issued |-> ~skip,
                         lastBreakPositionsRef |-> RefOf(positions)] >>
           /\ IF skip
              THEN UNCHANGED pluginVars
              ELSE Dispatch([steps |-> << >>, meta |-> << ProjectedMeta(positions) >>])
    /\ UNCHANGED <<args, loop, engineVars, schedVars>>

NextProjection == ProjectionEffect

SpecProjection == InitProjection /\ [][NextProjection]_vars

(***************************************************************************)
(* The projection effect interleaved with edits of the document.  args     *)
(* holds the blocks of the document and lastBreakPositionsRef as they are  *)
(* now; an edit inserts a block, deletes one or replaces the text of one.  *)
(* Each completed recomputation hands the effect a new pagination result;  *)
(* ret holds what the effect's last run computed, << >> once the document  *)
(* has been edited since.                                                  *)
(***************************************************************************)
MaxSyncBlocks == 2

BlockSize == TextLen + 2

InitSync ==
    /\ \E nBlocks \in 0..MaxSyncBlocks :
           /\ args = [nBlocks |-> nBlocks, lastBreakPositionsRef |-> InitRef]
           /\ docSize = nBlocks * BlockSize
    /\ ret = << >>
    /\ loop = << >>
    /\ decorations = << >>
    /\ lastTr = NoTr
    /\ repeats = 0
    /\ dropped = 0
    /\ EngineIdle
    /\ SchedIdle

\* The effect of lines 68-83, run for the result of a completed recomputation.
ProjectResult ==
    /\ \E anchors \in SeqsUpTo(Anchors, MaxAnchors) :
       LET positions == anchorsToDocPositions(args.nBlocks, anchors)
           skip      == RefOf(positions) = args.lastBreakPositionsRef
       IN  /\ ret' = << [positions |-> positions, issued |-> ~skip,
                         lastBreakPositionsRef |-> RefOf(positions)] >>
           /\ args' = [args EXCEPT !.lastBreakPositionsRef = RefOf(positions)]
           /\ IF skip
              THEN UNCHANGED pluginVars
              ELSE Dispatch([steps |-> << >>, meta |-> << ProjectedMeta(positions) >>])
    /\ UNCHANGED <<loop, engineVars, schedVars>>

\* The user inserts a block before block b + 1.
InsertBlock ==
    /\ args.nBlocks < MaxSyncBlocks
    /\ \E b \in 0..args.nBlocks :
           Dispatch([steps |-> << [start |-> b * BlockSize, oldSize |-> 0,
                                   newSize |-> BlockSize] >>,
                     meta |-> << >>])
    /\ args' = [args EXCEPT !.nBlocks = @ + 1]
    /\ ret' = << >>
    /\ UNCHANGED <<loop, engineVars, schedVars>>

\* The user deletes block b.
DeleteBlock ==
    /\ \E b \in 1..args.nBlocks :
           Dispatch([steps |-> << [start |-> (b - 1) * BlockSize, oldSize |-> BlockSize,
                                   newSize |-> 0] >>,
                     meta |-> << >>])
    /\ args' = [args EXCEPT !.nBlocks = @ - 1]
    /\ ret' = << >>
    /\ UNCHANGED <<loop, engineVars, schedVars>>

\* The user replaces the text of block b by other text of the same length.
ReplaceText ==
    /\ \E b \in 1..args.nBlocks :
           Dispatch([steps |-> << [start |-> (b - 1) * BlockSize + 1, oldSize |-> TextLen,
                                   newSize |-> TextLen] >>,
                     meta |-> << >>])
    /\ ret' = << >>
    /\ UNCHANGED <<args, loop, engineVars, schedVars>>

NextSync == ProjectResult \/ InsertBlock \/ DeleteBlock \/ ReplaceText

SpecSync == InitSync /\ [][NextSync]_vars

(***************************************************************************)
(* The layouts: up to MaxUnits blocks in flow order (a block starts at or  *)
(* below the bottom of the one before it), a block of height 0 being one   *)
(* that isVisibleElement filters out.                                      *)
(***************************************************************************)
Units(from) ==
    { [top |-> t, bottom |-> b, text |-> TextOf(s, b - t)] :
          t \in from..MaxY, b \in from..MaxY, s \in TextStyles }

FlowUnits(from) == { u \in Units(from) : u.top <= u.bottom }

LastBottom(l) == IF Len(l) = 0 THEN 0 ELSE l[Len(l)].bottom

RECURSIVE Layouts(_)
Layouts(n) ==
    IF n = 0 THEN { << >> }
    ELSE LET shorter == Layouts(n - 1)
         IN  shorter \cup
             UNION { { Append(l, u) : u \in FlowUnits(LastBottom(l)) } :
                         l \in { s \in shorter : Len(s) = n - 1 } }

\* Config invariant of the spec: pageHeightPx > 0, margins and gap >= 0.  The
\* editor passes the same PAGE_MARGIN_PX as top and bottom margin.
Configs ==
    { [pageHeightPx |-> h, topMarginPx |-> m, bottomMarginPx |-> m, pageGapPx |-> g] :
          h \in 1..MaxPageHeight, m \in 0..MaxMargin, g \in 0..MaxMargin }

InitEngine ==
    /\ blocks \in Layouts(MaxUnits)
    /\ opts \in Configs
    /\ caretApi \in CaretApis
    /\ out = << >>
    /\ SchedIdle
    /\ PluginIdle
    /\ CallIdle

\* The call computePageBreaks(root, options).
ComputeBreaks ==
    /\ out = << >>
    /\ out' = << computePageBreaks(blocks, opts, caretApi) >>
    /\ UNCHANGED <<blocks, opts, caretApi>>
    /\ UNCHANGED schedVars
    /\ UNCHANGED pluginVars
    /\ UNCHANGED callVars

NextEngine == ComputeBreaks

SpecEngine == InitEngine /\ [][NextEngine]_vars

(***************************************************************************)
(* findSplitPointWithinBlock as a function of the block, the boundary and  *)
(* the caret probe, followed by the break computePageBreaks pushes for the *)
(* block from its answer (lines 460-484).  ret holds the split point and   *)
(* the break.                                                              *)
(***************************************************************************)
InitSplit ==
    /\ \E block \in { u \in FlowUnits(0) : isVisibleElement(u) } :
       \E boundaryY \in 0..(MaxY + 1) :
       \E api \in CaretApis :
           args = [block |-> block, boundaryY |-> boundaryY, api |-> api]
    /\ ret = << >>
    /\ loop = << >>
    /\ EngineIdle
    /\ SchedIdle
    /\ PluginIdle

\* Lines 460-484 for the block, with currentPageBottom at the boundary.
SplitBlock ==
    /\ ret = << >>
    /\ LET split == findSplitPointWithinBlock(args.block, args.boundaryY,
                                              maxBinarySearchSteps, args.api)
           st    == [breaks |-> << >>, currentPageBottom |-> args.boundaryY]
           after == IF split # NoSplit
                    THEN EmitTextOffset(1, split, st, pageStridePx(opts))
                    ELSE EmitBeforeElement(1, st, pageStridePx(opts))
       IN  ret' = << [split |-> split, break |-> after.breaks[1]] >>
    /\ UNCHANGED <<args, loop, engineVars, schedVars, pluginVars>>

NextSplit == SplitBlock

SpecSplit == InitSplit /\ [][NextSplit]_vars

(***************************************************************************)
(* computePageBreaks statement by statement: the for loop over the visible *)
(* blocks (lines 442-485) and the page-skipping while loop inside it       *)
(* (lines 450-457).  loop.pc is "for" at the head of the for loop, with i  *)
(* the block to visit next, "while" at the head of the while loop for      *)
(* block i, and "done" after the return.                                   *)
(***************************************************************************)
visibleBlocks == SelectSeq(blocks, isVisibleElement)

InitLoop ==
    /\ blocks \in Layouts(MaxUnits)
    /\ opts \in Configs
    /\ caretApi \in CaretApis
    /\ out = << >>
    /\ args = << >>
    /\ ret = << >>
    /\ loop = [pc |-> "for", i |-> 1,
               st |-> [breaks |-> << >>,
                       currentPageBottom |-> opts.topMarginPx + opts.pageHeightPx]]
    /\ SchedIdle
    /\ PluginIdle

\* Lines 442-447: the next block is taken; one that fits on the page is passed.
ForStep ==
    /\ loop.pc = "for"
    /\ loop.i <= Len(visibleBlocks)
    /\ loop' = IF visibleBlocks[loop.i].bottom <= loop.st.currentPageBottom
               THEN [loop EXCEPT !.i = @ + 1]
               ELSE [loop EXCEPT !.pc = "while"]
    /\ UNCHANGED <<args, ret>>
    /\ UNCHANGED engineVars
    /\ UNCHANGED schedVars
    /\ UNCHANGED pluginVars

\* Lines 450-457: one iteration of while (top >= currentPageBottom).
WhileStep ==
    /\ loop.pc = "while"
    /\ visibleBlocks[loop.i].top >= loop.st.currentPageBottom
    /\ loop' = [loop EXCEPT !.st = EmitBeforeElement(loop.i, @, pageStridePx(opts))]
    /\ UNCHANGED <<args, ret>>
    /\ UNCHANGED engineVars
    /\ UNCHANGED schedVars
    /\ UNCHANGED pluginVars

\* Lines 459-484: the while loop is left, the block is split or moved whole, and
\* the for loop goes on to the next block.
SplitStep ==
    /\ loop.pc = "while"
    /\ visibleBlocks[loop.i].top < loop.st.currentPageBottom
    /\ LET split == findSplitPointWithinBlock(visibleBlocks[loop.i],
                                              loop.st.currentPageBottom,
                                              maxBinarySearchSteps, caretApi)
       IN  loop' = [loop EXCEPT
                       !.pc = "for",
                       !.i = @ + 1,
                       !.st = IF split # NoSplit
                              THEN EmitTextOffset(loop.i, split, @, pageStridePx(opts))
                              ELSE EmitBeforeElement(loop.i, @, pageStridePx(opts))]
    /\ UNCHANGED <<args, ret>>
    /\ UNCHANGED engineVars
    /\ UNCHANGED schedVars
    /\ UNCHANGED pluginVars

\* Lines 487-495: the for loop is over and the result is returned.
Return ==
    /\ loop.pc = "for"
    /\ loop.i > Len(visibleBlocks)
    /\ loop' = [loop EXCEPT !.pc = "done"]
    /\ out' = << [pageHeightPx    |-> opts.pageHeightPx,
                  topMarginPx     |-> opts.topMarginPx,
                  bottomMarginPx  |-> opts.bottomMarginPx,
                  pageGapPx       |-> opts.pageGapPx,
                  pageStridePx    |-> pageStridePx(opts),
                  breaks          |-> loop.st.breaks,
                  contentHeightPx |-> scrollHeight(blocks)] >>
    /\ UNCHANGED <<blocks, opts, caretApi, args, ret>>
    /\ UNCHANGED schedVars
    /\ UNCHANGED pluginVars

NextLoop == ForStep \/ WhileStep \/ SplitStep \/ Return

SpecLoop == InitLoop /\ [][NextLoop]_vars

(***************************************************************************)
(* Scenario A: three paragraphs of the same height stacked without margins *)
(* on a page that holds two of them and a part of the third.  One unit of  *)
(* length is one line of text; with lines of 12px the paragraphs of 300px   *)
(* are 25 lines and the page of 864px is 72 lines.                         *)
(***************************************************************************)
MaxParagraph == 25

Paragraph(k, h, style) == [top |-> (k - 1) * h, bottom |-> k * h, text |-> TextOf(style, h)]

InitScenarioA ==
    /\ \E h \in 2..MaxParagraph :
       \E s1 \in TextStyles, s2 \in TextStyles, s3 \in TextStyles :
           blocks = << Paragraph(1, h, s1), Paragraph(2, h, s2), Paragraph(3, h, s3) >>
    /\ \E p \in 1..(3 * MaxParagraph) :
           /\ 2 * blocks[1].bottom < p
           /\ p < 3 * blocks[1].bottom
           /\ opts = [pageHeightPx |-> p, topMarginPx |-> 0, bottomMarginPx |-> 0,
                      pageGapPx |-> 0]
    /\ caretApi \in CaretApis
    /\ out = << >>
    /\ SchedIdle
    /\ PluginIdle
    /\ CallIdle

SpecScenarioA == InitScenarioA /\ [][NextEngine]_vars

(***************************************************************************)
(* Claims about computePageBreaks (SpecEngine).                            *)
(***************************************************************************)
Breaks == out[1].breaks

SameLocation(a, b) ==
    /\ a.kind = b.kind
    /\ a.element = b.element
    /\ a.kind = "text-offset" => (a.run = b.run /\ a.offset = b.offset)

\* C1: no two breaks of the list returned by computePageBreaks reference the same
\* location (the same element for before-element breaks, the same text node and
\* offset for text-offset breaks).
C1_NoDuplicateTargets ==
    out # << >> =>
        \A j \in 1..Len(Breaks) : \A k \in 1..Len(Breaks) :
            j < k => ~SameLocation(Breaks[j], Breaks[k])

\* C2: the pageStartY values of the returned breaks are strictly increasing: the
\* k-th break is emitted at the first page bottom plus (k - 1) strides, so no two
\* breaks share a pageStartY.
C2_PageStartStrictlyIncreasing ==
    out # << >> =>
        /\ \A k \in 1..Len(Breaks) :
               Breaks[k].pageStartY =
                   opts.topMarginPx + opts.pageHeightPx + (k - 1) * out[1].pageStridePx
        /\ \A k \in 1..(Len(Breaks) - 1) :
               Breaks[k].pageStartY < Breaks[k + 1].pageStartY

\* A result in which a text-offset break is followed by a further break.
C2_Witness ==
    /\ out # << >>
    /\ \E k \in 1..(Len(Breaks) - 1) :
           /\ Breaks[k].kind = "text-offset"
           /\ Breaks[k + 1].element # Breaks[k].element

\* The pagination units: the blocks computePageBreaks keeps, as the breaks index them.
VisibleUnits == SelectSeq(blocks, isVisibleElement)

BreaksOf(i) == { k \in 1..Len(Breaks) : Breaks[k].element = i }

\* A unit without measurable text that is taller than a page.
TallWithoutText(unit) ==
    /\ walkTextNodes(unit.text) = << >>
    /\ unit.bottom - unit.top > opts.pageHeightPx

\* C14: a unit without measurable text that is taller than pageHeightPx gets
\* exactly one break, of kind before-element, wherever its top falls relative to the
\* page boundaries.
C14_NoFitEscape ==
    out # << >> =>
        \A i \in 1..Len(VisibleUnits) :
            TallWithoutText(VisibleUnits[i]) =>
                /\ Cardinality(BreaksOf(i)) = 1
                /\ \A k \in BreaksOf(i) : Breaks[k].kind = "before-element"

\* The characters the refinement looks at: the maxBacktrack ones before the offset.
BacktrackWindow(best) == { k \in 1..best : k > best - maxBacktrack }

WhitespaceIn(data, window) == { k \in window : IsSpace(data[k]) }

HasText(unit) == walkTextNodes(unit.text) # << >>

AfterWhitespace(data, offset) == offset >= 1 /\ IsSpace(data[offset])

\* C16: a root whose only unit is a text paragraph starting on the first page and
\* taller than pageHeightPx gets exactly one break, a text-offset break at the first
\* page boundary, whose offset is snapped to a preceding whitespace (when there is
\* whitespace in the backtrack window) whichever path produced it.
C16_ScenarioB ==
    (/\ out # << >>
     /\ Len(blocks) = 1
     /\ Len(VisibleUnits) = 1
     /\ HasText(blocks[1])
     /\ blocks[1].top < opts.topMarginPx + opts.pageHeightPx
     /\ blocks[1].bottom - blocks[1].top > opts.pageHeightPx)
        => /\ Len(Breaks) = 1
           /\ Breaks[1].kind = "text-offset"
           /\ Breaks[1].pageStartY = opts.topMarginPx + opts.pageHeightPx
           /\ LET data == walkTextNodes(blocks[1].text)[Breaks[1].run]
              IN  WhitespaceIn(data, BacktrackWindow(Breaks[1].offset)) # {}
                      => AfterWhitespace(data, Breaks[1].offset)

(***************************************************************************)
(* Claims about the scheduler (SpecSched).                                 *)
(***************************************************************************)
Bursts == 1..Burst(sched)

\* Nothing of burst b is outstanding any more.
Finished(b) ==
    /\ \A t \in sched.timers : t.burst # b
    /\ \A f \in sched.frames : f.burst # b

\* C3 as claimed: every burst of change events (none cut short by teardown) gets
\* exactly one call of computePageBreaks.
C3_ExactlyOnePerBurst ==
    \A b \in Bursts :
        (Finished(b) /\ ~sched.tornDown[b]) => sched.computes[b] = 1

\* C3 as amended: a burst of change events, each less than debounceMs after the one
\* before, gets at most one call of computePageBreaks, no earlier than debounceMs
\* after its last event, and exactly one unless its timer or frame was cancelled
\* for a later burst (a late timer, a frame still queued at the next expiry) or by
\* teardown.
C3_DebounceCoalescing ==
    \A b \in Bursts :
        /\ sched.computes[b] <= 1
        /\ sched.computes[b] = 1 =>
               sched.computedAt[b] >= sched.lastEventOf[b] + debounceMs
        /\ (Finished(b) /\ ~sched.tornDown[b] /\ ~sched.superseded[b]) =>
               sched.computes[b] = 1

\* A burst of several events that was measured once.
C3_Witness ==
    \E b \in Bursts : sched.eventsOf[b] >= 2 /\ sched.computes[b] = 1

\* C4: after the teardown of a session no callback of that session sets a timer,
\* queues a frame, calls computePageBreaks or updates the result.
C4_NoActionAfterTeardown == sched.stale = FALSE

\* C5: at most one debounce timer and at most one frame callback are outstanding,
\* and they are the ones the refs name: a replaced timer or frame never runs.
C5_AtMostOneTimerAndFrame ==
    /\ Cardinality(sched.timers) <= 1
    /\ Cardinality(sched.frames) <= 1
    /\ \A t \in sched.timers : t.id = sched.timeoutIdRef
    /\ \A f \in sched.frames : f.id = sched.rafIdRef

\* A timer was replaced by a change event and a queued frame by a timer expiry.
C5_Witness ==
    /\ sched.replacedTimer
    /\ sched.replacedFrame
    /\ sched.frames # {}

Idle      == sched.timers = {} /\ sched.frames = {}
Pending   == sched.timers # {} /\ sched.frames = {}
Measuring == sched.timers = {} /\ sched.frames # {}

\* C6 as claimed: the scheduler is always Idle, Pending or Measuring; a timer and
\* a queued frame are never outstanding together.
C6_ExclusiveStates == Idle \/ Pending \/ Measuring

\* C6 as amended: besides Idle, Pending and Measuring there is a fourth state, one
\* timer and one queued frame outstanding together, which a change event arriving
\* while a frame is queued enters: the timer is then younger than the frame.
C6_FourStates ==
    /\ Cardinality(sched.timers) <= 1
    /\ Cardinality(sched.frames) <= 1
    /\ \A t \in sched.timers : \A f \in sched.frames :
           /\ t.id > f.id
           /\ t.setBy \in {"resize", "update", "mount"}

\* A timer and a queued frame are outstanding together.
C6_Witness == sched.timers # {} /\ sched.frames # {}

\* C7: computePageBreaks runs only inside a frame callback that a timer expiry
\* queued, the timer having been set by a change event or the initial mount.
C7_OnlyDeferredMeasurement ==
    /\ \A t \in sched.timers : t.setBy \in {"resize", "update", "mount"}
    /\ \A f \in sched.frames :
           f.queuedBy = "timer" /\ f.setBy \in {"resize", "update", "mount"}
    /\ sched.result # NoResult =>
           /\ sched.result.ctx = "frame"
           /\ sched.result.queuedBy = "timer"
           /\ sched.result.setBy \in {"resize", "update", "mount"}

\* A measurement caused by an editor update has updated the result.
C7_Witness == sched.result # NoResult /\ sched.result.setBy = "update"

\* The hook's root argument is null in the render the session belongs to.
RootAbsent(s, rs) == s >= 1 /\ ~rs[s]

\* C19: while the content root is null every trigger (the effect run, a resize
\* report, an editor update, a timer expiry, a frame) is a no-op: it sets no
\* timer, queues no frame, does not call computePageBreaks and leaves the
\* result as it was.
C19_NullRootNoOp ==
    [][(RootAbsent(session', roots') /\ ~unmounted') =>
           /\ sched'.timers \subseteq sched.timers
           /\ sched'.frames \subseteq sched.frames
           /\ \A b \in 1..Len(sched.computes) : sched'.computes[b] = sched.computes[b]
           /\ sched'.result = sched.result]_vars

(***************************************************************************)
(* The page count of a result of computePageBreaks (SpecEngine).           *)
(***************************************************************************)
\* A block that contributes no height.
ZeroHeight(unit) == unit.bottom - unit.top = 0

\* C21: a root without visible pagination units yields an empty break list, and
\* the page count drawn for a result is its number of breaks plus one, never less
\* than 1: 1 for the null result and for an empty break list.
C21_EmptyRootOnePage ==
    /\ out = << >> => pageCount(out) = 1
    /\ out # << >> =>
           /\ pageCount(out) = Len(Breaks) + 1
           /\ Breaks = << >> => pageCount(out) = 1
           /\ (\A k \in 1..Len(blocks) : ZeroHeight(blocks[k])) =>
                  Breaks = << >> /\ pageCount(out) = 1

\* The call returned for a root whose only blocks have no height and lie at or
\* past the first page bottom.
C21_Witness ==
    /\ out # << >>
    /\ blocks # << >>
    /\ \A k \in 1..Len(blocks) :
           ZeroHeight(blocks[k]) /\ blocks[k].top >= opts.topMarginPx + opts.pageHeightPx
    /\ Breaks = << >>

\* C22: a break is emitted for a unit at a page boundary only if the unit's
\* bottom lies below that boundary; a unit whose bottom is at or above the
\* boundary, also the boundary as advanced by the before-element breaks just
\* emitted for it, gets no further break.
C22_BreakOnlyBelowBoundary ==
    out # << >> =>
        \A k \in 1..Len(Breaks) :
            VisibleUnits[Breaks[k].element].bottom > Breaks[k].pageStartY

(***************************************************************************)
(* Claims about the loops of computePageBreaks (SpecLoop).                 *)
(***************************************************************************)
\* Blocks the for loop has not passed yet.
Remaining(l) == Len(visibleBlocks) + 1 - l.i

\* How far the top of block i lies at or past the page bottom.
Gap(l) == visibleBlocks[l.i].top - l.st.currentPageBottom

\* C20: computePageBreaks terminates under the config invariant.  Every step of
\* its loops lowers a measure that cannot fall for ever: an iteration of the
\* while loop runs only with top >= currentPageBottom and raises
\* currentPageBottom by the stride, which is positive, so it lowers the distance
\* to top; the for loop visits each block once, moving from i to i + 1 and never
\* back; and when no block remains the call returns the result computed.
C20_Terminates ==
    [][/\ pageStridePx(opts) > 0
       /\ loop.pc = "for" =>
              \/ loop'.pc = "for" /\ loop'.i = loop.i + 1 /\ loop'.st = loop.st
              \/ loop'.pc = "while" /\ loop'.i = loop.i /\ loop'.st = loop.st
              \/ /\ loop'.pc = "done"
                 /\ Remaining(loop) = 0
                 /\ out' = << computePageBreaks(blocks, opts, caretApi) >>
       /\ loop.pc = "while" =>
              \/ /\ loop'.pc = "while" /\ loop'.i = loop.i
                 /\ Gap(loop) >= 0
                 /\ loop'.st.currentPageBottom =
                        loop.st.currentPageBottom + pageStridePx(opts)
                 /\ Gap(loop') < Gap(loop)
              \/ loop'.pc = "for" /\ loop'.i = loop.i + 1
       /\ loop.pc # "done"
       /\ Remaining(loop') >= 0]_vars

\* The call has returned after the while loop ran twice or more for one block.
C20_Witness ==
    /\ loop # << >>
    /\ loop.pc = "done"
    /\ \E j \in 1..Len(loop.st.breaks) : \E k \in 1..Len(loop.st.breaks) :
           /\ j + 2 <= k
           /\ loop.st.breaks[j].element = loop.st.breaks[k].element

(***************************************************************************)
(* Claims about the Pagination plugin (SpecPlugin).                        *)
(***************************************************************************)
HasMeta(tr) == tr.meta # << >>

OfClass(decos, class) == SelectSeq(decos, LAMBDA w : w.class = class)

PositionsOf(decos) == [k \in 1..Len(decos) |-> decos[k].pos]

\* C8: a setPaginationBreaks transaction applied a second time in a row leaves the
\* spacer set (positions, kinds, heights) as the first application left it.
C8_IdempotentProjection ==
    [][(HasMeta(lastTr') /\ repeats' = 1) => decorations' = decorations]_vars

\* The same break set, with spacers in it, has been applied twice in a row.
C8_Witness ==
    /\ HasMeta(lastTr)
    /\ repeats = 1
    /\ \E k \in 1..Len(decorations) : decorations[k].class = "pm-page-break"

BreakPositions(decos) ==
    { decos[k].pos : k \in { j \in 1..Len(decos) : decos[j].class = "pm-page-break" } }

\* The last inter-page break position, -1 when there is no inter-page spacer.
LastBreakPos(decos) ==
    IF BreakPositions(decos) = {} THEN -1
    ELSE CHOOSE p \in BreakPositions(decos) : \A q \in BreakPositions(decos) : q <= p

NotBottom(decos) == SelectSeq(decos, LAMBDA w : w.class # "pm-page-bottom-spacer")

IsEdit(tr) == tr.meta = << >> /\ tr.steps # << >>

\* C9: an edit without a new break set that touches only positions strictly after
\* the last inter-page break leaves the top spacer and every inter-page spacer
\* where they were.
C9_MappingStability ==
    [][(IsEdit(lastTr') /\ lastTr'.steps[1].start > LastBreakPos(decorations))
          => NotBottom(decorations') = NotBottom(decorations)]_vars

\* Content was inserted or deleted after the last of the inter-page spacers.
C9_Witness ==
    /\ IsEdit(lastTr)
    /\ BreakPositions(decorations) # {}
    /\ lastTr.steps[1].start > LastBreakPos(decorations)
    /\ \E k \in 1..Len(decorations) : decorations[k].class = "pm-page-top-spacer"

\* The spacers of decos that the mapping of tr does not delete.
Kept(decos, tr) ==
    { j \in 1..Len(decos) : ~WidgetMap(tr.steps, decos[j]).deleted }

\* Where the kept spacer j is in the mapped set.
NewIndex(decos, tr, j) == Cardinality({ i \in Kept(decos, tr) : i <= j })

\* a is drawn before b: at an earlier position, or at the same one on an earlier side.
DrawnBefore(a, b) == a.pos < b.pos \/ (a.pos = b.pos /\ a.side <= b.side)

\* C10: a transaction without pagination meta maps every spacer through the
\* transaction's mapping: the spacers the mapping deletes are dropped, the others
\* keep their class, height and relative order, none is added, and a transaction
\* without steps leaves the set as it was.
C10_RemapOnly ==
    [][~HasMeta(lastTr') =>
          /\ Len(decorations') = Cardinality(Kept(decorations, lastTr'))
          /\ \A j \in Kept(decorations, lastTr') :
                 decorations'[NewIndex(decorations, lastTr', j)] =
                     [decorations[j] EXCEPT
                         !.pos = WidgetMap(lastTr'.steps, decorations[j]).pos]
          /\ \A i \in Kept(decorations, lastTr') : \A j \in Kept(decorations, lastTr') :
                 DrawnBefore(decorations[i], decorations[j])
                     => decorations'[NewIndex(decorations, lastTr', i)].pos
                            <= decorations'[NewIndex(decorations, lastTr', j)].pos
          /\ lastTr'.steps = << >> => decorations' = decorations]_vars

\* An edit deleted the content one spacer was attached to and moved another one.
C10_Witness ==
    /\ IsEdit(lastTr)
    /\ dropped > 0
    /\ lastTr.steps[1].oldSize > lastTr.steps[1].newSize
    /\ \E k \in 1..Len(decorations) :
           /\ decorations[k].class = "pm-page-bottom-spacer"
           /\ decorations[k].pos = docSize
    /\ \E k \in 1..Len(decorations) : decorations[k].class = "pm-page-top-spacer"

NoHeight(meta) ==
    /\ meta.topSpacerPx <= 0
    /\ meta.betweenSpacerPx <= 0
    /\ meta.bottomSpacerPx <= 0

\* C17: after clearPaginationBreaks, after a following setPaginationBreaks([]) with
\* three zero heights, and after any new break set whose three heights are all <= 0,
\* whatever positions it carries, the spacer set is empty.
C17_EmptyWithoutHeights ==
    (HasMeta(lastTr) /\ NoHeight(lastTr.meta[1])) => decorations = << >>

\* clearPaginationBreaks was followed by setPaginationBreaks([], 0, 0, 0), the same
\* meta a second time.
C17_Witness ==
    /\ HasMeta(lastTr)
    /\ lastTr.meta[1].breakPositions = << >>
    /\ lastTr.meta[1].topSpacerPx = 0
    /\ lastTr.meta[1].betweenSpacerPx = 0
    /\ lastTr.meta[1].bottomSpacerPx = 0
    /\ repeats = 1
    /\ decorations = << >>

(***************************************************************************)
(* Liveness of the scheduler (SpecLive).                                   *)
(***************************************************************************)
\* The result comes from a call of computePageBreaks that began after the n-th
\* change event.
MeasuredAfter(n) == sched.result # NoResult /\ sched.result.seen >= n

\* C24: while the session is live with a non-null root and is not torn down,
\* every change event (resize or editor update) is followed in the end by a call
\* of computePageBreaks that begins after the event and updates the result, the
\* change events being finitely many and due timers and queued frames being run
\* in the end; an event that arrives while a frame is queued is not lost.
C24_EveryEventMeasured ==
    \A n \in 1..MaxLiveEvents :
        (sched.events = n /\ sched.live # 0) ~> MeasuredAfter(n)

\* A change event arrived while a frame was queued: its timer is still waiting,
\* and the frame has since run computePageBreaks and updated the result with a
\* measurement that began after the event.
C24_Witness ==
    /\ sched.events >= 1
    /\ MeasuredAfter(sched.events)
    /\ \E t \in sched.timers :
           /\ t.setBy \in {"resize", "update"}
           /\ \E b \in Bursts : b # t.burst /\ sched.computes[b] = 1

(***************************************************************************)
(* Claims about the projection effect between edits (SpecSync).            *)
(***************************************************************************)
\* C23: once the projection effect has run for a completed recomputation, the
\* positions of the inter-page spacers the plugin holds are the sorted,
\* deduplicated document positions mapped from that recomputation's breaks,
\* whatever edits and recomputations came before, also when edits have remapped
\* or dropped spacers since the last setPaginationBreaks and the positions equal
\* those dispatched last.
C23_SpacersMatchProjection ==
    ret # << >> =>
        PositionsOf(OfClass(decorations, "pm-page-break")) = ret[1].positions

(***************************************************************************)
(* More claims about the Pagination plugin (SpecPlugin).                   *)
(***************************************************************************)
\* C27: a bottom spacer, when the plugin holds one, is at the end of the
\* document, right after a break set is applied and after every later edit
\* mapped without a new break set; every spacer lies within the document.
C27_BottomSpacerAtEnd ==
    \A k \in 1..Len(decorations) :
        /\ decorations[k].pos \in 0..docSize
        /\ decorations[k].class = "pm-page-bottom-spacer" => decorations[k].pos = docSize

\* The last transaction was an edit that replaced text up to the end of the
\* document by new text, and the bottom spacer survived it.
C27_Witness ==
    /\ OfClass(decorations, "pm-page-bottom-spacer") # << >>
    /\ lastTr.meta = << >>
    /\ Len(lastTr.steps) = 1
    /\ lastTr.steps[1].oldSize > 0
    /\ lastTr.steps[1].newSize > 0
    /\ lastTr.steps[1].start + lastTr.steps[1].newSize = docSize

(***************************************************************************)
(* Claims about the projection effect (SpecProjection).                    *)
(***************************************************************************)
Resolvable == { k \in 1..Len(args.anchors) : posAtDOM(args.nBlocks, args.anchors[k]) # << >> }

ResolvablePositions == { posAtDOM(args.nBlocks, args.anchors[k])[1] : k \in Resolvable }

\* The list holds exactly the positions of the resolvable anchors, strictly increasing.
ExactlyResolvable(positions) ==
    /\ { positions[k] : k \in 1..Len(positions) } = ResolvablePositions
    /\ \A k \in 1..(Len(positions) - 1) : positions[k] < positions[k + 1]

IssuedWith(positions) ==
    /\ HasMeta(lastTr)
    /\ lastTr.meta[1].breakPositions = positions

\* C18 as the spec states it: with anchors that cannot be resolved the positions
\* are those of the resolvable anchors, strictly increasing, and setPaginationBreaks
\* is issued with them.
C18_UpdateStillIssued ==
    (ret # << >> /\ Resolvable # 1..Len(args.anchors))
        => /\ ExactlyResolvable(ret[1].positions)
           /\ IssuedWith(ret[1].positions)

\* C18: anchorsToDocPositions returns exactly the positions of the resolvable
\* anchors, strictly increasing, whether or not some anchors cannot be resolved; the
\* effect issues setPaginationBreaks with them unless they are the positions it
\* issued last, and then it issues nothing.
C18_UnmappableAnchorsDropped ==
    ret # << >> =>
        /\ ExactlyResolvable(ret[1].positions)
        /\ ret[1].issued <=> RefOf(ret[1].positions) # args.lastBreakPositionsRef
        /\ IF ret[1].issued THEN IssuedWith(ret[1].positions) ELSE lastTr = NoTr

\* Of three anchors the first cannot be resolved and the other two come out of
\* order; the command was issued with the two positions.
C18_Witness ==
    /\ ret # << >>
    /\ Len(args.anchors) = 3
    /\ Resolvable = {2, 3}
    /\ posAtDOM(args.nBlocks, args.anchors[2])[1] > posAtDOM(args.nBlocks, args.anchors[3])[1]
    /\ ret[1].issued
    /\ Len(ret[1].positions) = 2
    /\ Len(OfClass(decorations, "pm-page-break")) = 2

(***************************************************************************)
(* Claims about findSplitPointWithinBlock (SpecSplit).                     *)
(***************************************************************************)
SplitRuns == walkTextNodes(args.block.text)

EndBottom(r) == measureBlockToTextOffsetBottomY(args.block, r, Len(SplitRuns[r]))

\* The text runs whose end lies below the boundary.
Exceeding == { r \in 1..Len(SplitRuns) : EndBottom(r) > args.boundaryY }

SplitRun == CHOOSE r \in Exceeding : \A q \in Exceeding : r <= q

\* Nothing of the run fits above the boundary.
NothingFits(r) == measureBlockToTextOffsetBottomY(args.block, r, 1) > args.boundaryY

\* C26: in the fallback scan the split run is the first text run whose end lies
\* below the boundary; when nothing of it fits the split is the end of the run
\* before it, and without a run before it, or without any run ending below the
\* boundary, the answer is null and the break pushed is a before-element break.
\* Every text-offset break has an offset of 1 or more whose measured bottom is at
\* or above the break's pageStartY.
C26_FallbackScan ==
    ret # << >> =>
        /\ args.api = "none" =>
               /\ Exceeding = {} => ret[1].split = NoSplit
               /\ (Exceeding # {} /\ ~NothingFits(SplitRun)) =>
                      ret[1].split.run = SplitRun
               /\ (Exceeding # {} /\ NothingFits(SplitRun) /\ SplitRun > 1) =>
                      ret[1].split = [run |-> SplitRun - 1,
                                      offset |-> Len(SplitRuns[SplitRun - 1])]
               /\ (Exceeding # {} /\ NothingFits(SplitRun) /\ SplitRun = 1) =>
                      ret[1].split = NoSplit
        /\ ret[1].split = NoSplit <=> ret[1].break.kind = "before-element"
        /\ ret[1].break.kind = "text-offset" =>
               /\ ret[1].break.run = ret[1].split.run
               /\ ret[1].break.offset = ret[1].split.offset
               /\ ret[1].break.offset >= 1
               /\ measureBlockToTextOffsetBottomY(args.block, ret[1].break.run,
                                                  ret[1].break.offset)
                      <= ret[1].break.pageStartY

\* Nothing of the second run fits, and the split is the end of the first run.
C26_Witness ==
    /\ ret # << >>
    /\ args.api = "none"
    /\ Exceeding # {}
    /\ SplitRun = 2
    /\ NothingFits(2)
    /\ ret[1].break.kind = "text-offset"
    /\ ret[1].break.run = 1
    /\ ret[1].break.offset = Len(SplitRuns[1])

(***************************************************************************)
(* Claims about the binary search of the split offset (SpecSearch).        *)
(***************************************************************************)
RECURSIVE Pow2(_)
Pow2(k) == IF k = 0 THEN 1 ELSE 2 * Pow2(k - 1)

RunLength == Len(args.block.text[args.r])

BottomAt(offset) == measureBlockToTextOffsetBottomY(args.block, args.r, offset)

\* The measured bottom does not decrease as the offset grows.
Monotone == \A a \in 0..RunLength : \A b \in a..RunLength : BottomAt(a) <= BottomAt(b)

Fits(offset) == BottomAt(offset) <= args.boundaryY

\* The offset is the largest one in [0, n] whose measured bottom is at or above
\* the boundary.
LargestFit(offset) ==
    /\ offset \in 0..RunLength
    /\ Fits(offset)
    /\ \A o \in 0..RunLength : Fits(o) => o <= offset

MidWord(data, offset) ==
    /\ offset >= 1
    /\ offset < Len(data)
    /\ ~IsSpace(data[offset])
    /\ ~IsSpace(data[offset + 1])

C13_KeepsRawWithoutWhitespace ==
    (ret # << >> /\ WhitespaceIn(args.data, BacktrackWindow(args.best)) = {})
        => ret[1] = args.best

(***************************************************************************)
(* Claims about the rebuild branch (SpecRebuild).                          *)
(***************************************************************************)
ClampInto(p, size) == IF p < 0 THEN 0 ELSE IF p > size THEN size ELSE p

RECURSIVE CollapseAdjacent(_)
\* A list without the elements that repeat the element just before them.
CollapseAdjacent(list) ==
    IF Len(list) <= 1 THEN list
    ELSE LET front == CollapseAdjacent(SubSeq(list, 1, Len(list) - 1))
         IN  IF list[Len(list)] = list[Len(list) - 1] THEN front
             ELSE Append(front, list[Len(list)])

\* What the claim says of the spacer set a meta gives for a document of this size.
IsFreshSet(decos, meta, size) ==
    LET tops    == OfClass(decos, "pm-page-top-spacer")
        bottoms == OfClass(decos, "pm-page-bottom-spacer")
        breaks  == OfClass(decos, "pm-page-break")
        clamped == CollapseAdjacent([k \in 1..Len(meta.breakPositions) |->
                                        ClampInto(meta.breakPositions[k], size)])
    IN  /\ Len(decos) = Len(tops) + Len(bottoms) + Len(breaks)
        /\ IF meta.topSpacerPx > 0
           THEN tops = << Widget(0, -1, "pm-page-top-spacer", meta.topSpacerPx) >>
           ELSE tops = << >>
        /\ IF meta.bottomSpacerPx > 0
           THEN bottoms = << Widget(size, 1, "pm-page-bottom-spacer", meta.bottomSpacerPx) >>
           ELSE bottoms = << >>
        /\ IF meta.betweenSpacerPx > 0
           THEN /\ PositionsOf(breaks) = clamped
                /\ \A k \in 1..Len(breaks) :
                       breaks[k].height = meta.betweenSpacerPx /\ breaks[k].side = -1
           ELSE breaks = << >>

\* C11: after a transaction that carries a new break set, the spacer set is the one
\* the meta and the document size determine, whatever the set was before: a top
\* spacer at 0 iff top > 0, a bottom spacer at the document end iff bottom > 0, and
\* iff between > 0 one inter-page spacer per clamped position, adjacent equal
\* positions collapsed and the order kept.
C11_FreshSetFromMeta ==
    HasMeta(lastTr) => IsFreshSet(decorations, lastTr.meta[1], docSize)

\* A break set of three unsorted positions, one past the document end, was applied:
\* the clamped position repeats its neighbour and two spacers remain, in list order.
C11_Witness ==
    /\ HasMeta(lastTr)
    /\ lastTr.meta[1].betweenSpacerPx > 0
    /\ lastTr.meta[1].topSpacerPx > 0
    /\ lastTr.meta[1].bottomSpacerPx <= 0
    /\ \E k \in 1..Len(lastTr.meta[1].breakPositions) :
           lastTr.meta[1].breakPositions[k] > docSize
    /\ Len(OfClass(decorations, "pm-page-break")) = 2
    /\ Len(lastTr.meta[1].breakPositions) = 3
    /\ OfClass(decorations, "pm-page-break")[1].pos
           > OfClass(decorations, "pm-page-break")[2].pos

=============================================================================
